---- MODULE Spec2Model ----
(***************************************************************************)
(* FormattedInput (src/Currency-Formatted-Input.tsx): a controlled text    *)
(* input that shows a number as a currency / decimal string.               *)
(*                                                                         *)
(* Strings are sequences of one-character strings, so that replace, split, *)
(* slice and join are modelled by what they do.  Numbers are non-negative  *)
(* decimals w + f/Scale held as [nan, w, f]; every decimal the model can   *)
(* type has at most FracPrecision fractional digits, so the arithmetic is  *)
(* exact.  One action is one event handler together with the render it     *)
(* causes; the post-render effect is the action RunEffect, which React     *)
(* flushes before it handles the next event.                               *)
(***************************************************************************)
EXTENDS Integers, Sequences, FiniteSets, TLC

\* Longest text of a change event, apart from the named scenario texts:
\* MaxLen for the first edit after mount (EditSpec), MaxKeys for the edits of
\* the whole life of the component (Spec).
MaxLen == 3
MaxKeys == 2

VARIABLES
    value,              \* prop value: the caller's number
    minValue,           \* prop minValue
    maxValue,           \* prop maxValue
    currency,           \* prop currency
    showCents,          \* prop showCents
    showCurrencySymbol, \* prop showCurrencySymbol
    displayValue,       \* useState("") : the text in the input
    isFocused,          \* useState(false)
    effectPending,      \* the effect's dependencies changed in the last render
    lastEvent,          \* history: the last event handled
    typed,              \* history: e.target.value of the last change event
    calls,              \* history: the arguments of setValue in the last event
    pristine,           \* history: focused from value 0 / empty display, no edit since
    symbolOff,          \* history: showCurrencySymbol has been false since mount
    log,                \* history: what the last event handler called, in order
    blurFrom            \* history: what the last blur found in the display

vars == <<value, minValue, maxValue, currency, showCents, showCurrencySymbol,
          displayValue, isFocused, effectPending, lastEvent, typed, calls,
          pristine, symbolOff, log, blurFrom>>

----------------------------------------------------------------------------
(* Numbers *)

RECURSIVE Pow10(_)
Pow10(n) == IF n = 0 THEN 1 ELSE 10 * Pow10(n - 1)

\* Fractional digits a number carries exactly.
FracPrecision == MaxLen
Scale == Pow10(FracPrecision)

Num(w, f) == [nan |-> FALSE, w |-> w, f |-> f]
NaN == [nan |-> TRUE, w |-> 0, f |-> 0]
Zero == Num(0, 0)

isNaN(a) == a.nan
Leq(a, b) == a.w < b.w \/ (a.w = b.w /\ a.f <= b.f)
MathMax(a, b) == IF Leq(a, b) THEN b ELSE a
MathMin(a, b) == IF Leq(a, b) THEN a ELSE b
MathFloor(a) == Num(a.w, 0)
IsInteger(a) == ~a.nan /\ a.f = 0

----------------------------------------------------------------------------
(* Strings *)

DigitChars == <<"0", "1", "2", "3", "4", "5", "6", "7", "8", "9">>
Digits == {DigitChars[i] : i \in 1..10}
DigitVal(c) == (CHOOSE i \in 1..10 : DigitChars[i] = c) - 1

IsNumericChar(c) == c \in Digits \cup {"."}
\* s.replace(/[^\d.]/g, "")
StripNonNumeric(s) == SelectSeq(s, IsNumericChar)

IndexOfDot(s) ==
    IF \E i \in 1..Len(s) : s[i] = "."
    THEN CHOOSE i \in 1..Len(s) : s[i] = "." /\ \A j \in 1..(i - 1) : s[j] # "."
    ELSE 0

\* s.split(".")
RECURSIVE Split(_)
Split(s) ==
    LET i == IndexOfDot(s)
    IN  IF i = 0 THEN <<s>>
        ELSE <<SubSeq(s, 1, i - 1)>> \o Split(SubSeq(s, i + 1, Len(s)))

\* parts.join(".")
RECURSIVE Join(_)
Join(parts) ==
    IF Len(parts) = 1 THEN parts[1]
    ELSE parts[1] \o <<".">> \o Join(Tail(parts))

\* s.slice(0, n)
Slice(s, n) == SubSeq(s, 1, IF Len(s) < n THEN Len(s) ELSE n)

RECURSIVE DigitsToInt(_)
DigitsToInt(s) ==
    IF s = <<>> THEN 0
    ELSE 10 * DigitsToInt(SubSeq(s, 1, Len(s) - 1)) + DigitVal(s[Len(s)])

RECURSIVE IntToDigits(_)
IntToDigits(n) ==
    IF n < 10 THEN <<DigitChars[n + 1]>>
    ELSE IntToDigits(n \div 10) \o <<DigitChars[(n % 10) + 1]>>

RECURSIVE Zeros(_)
Zeros(n) == IF n = 0 THEN <<>> ELSE <<"0">> \o Zeros(n - 1)

----------------------------------------------------------------------------
(* The runtime's functions the component calls *)

\* parseFloat on a string of digits and points: the longest prefix that is a
\* decimal literal (digits, optionally one point and more digits); NaN when
\* that prefix holds no digit.
parseFloat(s) ==
    LET parts == Split(s)
        ip    == parts[1]
        \* no text of the model has more than FracPrecision fractional digits
        fp    == IF Len(parts) > 1 THEN Slice(parts[2], FracPrecision) ELSE <<>>
    IN  IF ip = <<>> /\ fp = <<>> THEN NaN
        ELSE Num(DigitsToInt(ip), DigitsToInt(fp \o Zeros(FracPrecision - Len(fp))))

\* Grouping in threes counted from the left end.
RECURSIVE GroupThousands_FromLeft(_)
GroupThousands_FromLeft(d) ==
    IF Len(d) <= 3 THEN d
    ELSE SubSeq(d, 1, 3) \o <<",">>
         \o GroupThousands_FromLeft(SubSeq(d, 4, Len(d)))

\* Grouping of a string of digits in threes from the right.
RECURSIVE GroupThousands(_)
GroupThousands(d) ==
    IF Len(d) <= 3 THEN d
    ELSE GroupThousands(SubSeq(d, 1, Len(d) - 3)) \o <<",">>
         \o SubSeq(d, Len(d) - 2, Len(d))

CurrencySymbol(cur) == IF cur = "USD" THEN <<"$">> ELSE <<"€">>

\* new Intl.NumberFormat("en-US", {style, currency, minimumFractionDigits,
\* maximumFractionDigits}).format(v): v rounded half away from zero to 2 or
\* 0 fractional digits, grouped, with the currency's symbol in currency style.
NumberFormat(v, sym, cur, sc) ==
    LET hund   == (v.f * 100) \div Scale
        rem    == (v.f * 100) % Scale
        cents  == hund + (IF 2 * rem >= Scale THEN 1 ELSE 0)
        whole  == IF sc THEN v.w + (IF cents = 100 THEN 1 ELSE 0)
                  ELSE v.w + (IF 2 * v.f >= Scale THEN 1 ELSE 0)
        c2     == cents % 100
        frac   == IF sc THEN <<".", DigitChars[(c2 \div 10) + 1], DigitChars[(c2 % 10) + 1]>>
                  ELSE <<>>
    IN  (IF sym THEN CurrencySymbol(cur) ELSE <<>>)
        \o GroupThousands(IntToDigits(whole)) \o frac

----------------------------------------------------------------------------
(* The component's functions *)

\* addCommas: the integer part grouped in threes, the other parts untouched.
\* parts[0] holds digits only at every call (formatForDisplay strips first).
addCommas(num) ==
    LET parts == Split(num)
    IN  Join(<<GroupThousands(parts[1])>> \o Tail(parts))

\* The manual formatter taking the integer-only branch whatever showCents is.
formatForDisplay_IntegerOnly(v, sc, sym) ==
    LET cleanValue == StripNonNumeric(v)
    IN  IF cleanValue = <<>> THEN <<>>
        ELSE IF ~sym THEN addCommas(Split(cleanValue)[1])
        ELSE <<"$">> \o addCommas(Split(cleanValue)[1])

formatForDisplay(v, sc, sym) ==
    LET cleanValue == StripNonNumeric(v)
        parts      == Split(cleanValue)
        formattedValue ==
            IF sc
            THEN parts[1] \o (IF Len(parts) > 1 THEN <<".">> \o Slice(parts[2], 2) ELSE <<>>)
            ELSE parts[1]
    IN  IF cleanValue = <<>> THEN <<>>
        ELSE IF ~sym THEN addCommas(formattedValue)
        ELSE <<"$">> \o addCommas(formattedValue)

\* handleChange, lines 99-108: the text the number is parsed from.
CleanValue(inputValue, sc) ==
    LET numericValue == StripNonNumeric(inputValue)
        parts        == Split(numericValue)
    IN  IF sc
        THEN parts[1] \o (IF Len(parts) > 1 THEN <<".">> \o parts[2] ELSE <<>>)
        ELSE parts[1]

\* Clamp without the lower bound.
Clamp_NoMin(parsedValue, lo, hi) == MathMin(hi, parsedValue)

\* handleChange, line 121.
Clamp(parsedValue, lo, hi) == MathMin(hi, MathMax(lo, parsedValue))

\* The policy without Math.floor.
PolicyAdjust_NoFloor(clampedValue, sc) == clampedValue

\* handleChange, line 122.
PolicyAdjust(clampedValue, sc) ==
    IF sc THEN clampedValue ELSE MathFloor(clampedValue)

\* The calls without the isNaN test.
SetValueCalls_NoNaNTest(cleanValue, sc, lo, hi) ==
    IF cleanValue = <<>> THEN <<Zero>>
    ELSE <<PolicyAdjust(Clamp(parseFloat(cleanValue), lo, hi), sc)>>

\* handleChange, lines 113-123: the arguments of the setValue calls it makes.
SetValueCalls(cleanValue, sc, lo, hi) ==
    IF cleanValue = <<>> THEN <<Zero>>
    ELSE LET parsedValue == parseFloat(cleanValue)
         IN  IF ~isNaN(parsedValue)
             THEN <<PolicyAdjust(Clamp(parsedValue, lo, hi), sc)>>
             ELSE <<>>

\* The effect without the empty-display test of line 91.
EffectDisplay_AlwaysFormat(v, dv, foc, sym, cur, sc) ==
    IF ~foc /\ v = Zero /\ dv = <<>> THEN <<>>
    ELSE NumberFormat(v, sym, cur, sc)

\* The effect without any test for zero.
EffectDisplay_FormatAlways(v, dv, foc, sym, cur, sc) ==
    NumberFormat(v, sym, cur, sc)

\* The effect's body, lines 82-92: the display string it sets.
EffectDisplay(v, dv, foc, sym, cur, sc) ==
    IF ~foc /\ v = Zero /\ dv = <<>> THEN <<>>
    ELSE IF v = Zero /\ dv = <<>> THEN <<>>
    ELSE NumberFormat(v, sym, cur, sc)

\* handleFocus, lines 128-139.
FocusDisplay(v, sym, cur, sc) ==
    IF v = Zero THEN <<"$">> ELSE NumberFormat(v, sym, cur, sc)

\* handleBlur, lines 151-161.
BlurDisplay(v, dv, sym, cur, sc) ==
    IF v = Zero /\ dv = <<"$">> THEN <<>>
    ELSE IF v # Zero THEN NumberFormat(v, sym, cur, sc)
    ELSE dv

\* A dependency array that also lists the display string.
EffectDeps_WithDisplay(v, sc, foc, dv, sym, cur) == <<v, sc, foc, dv>>

\* The effect's dependency array, line 93, of a render with these props and
\* this state.
EffectDeps(v, sc, foc, dv, sym, cur) == <<v, sc, foc>>

\* handleFocus, lines 127-146: its calls in order.
FocusLog(v) ==
    <<"setIsFocused", "setDisplayValue", "onFocus", "requestAnimationFrame">>

\* handleBlur with the caller's handler called only where the display is set.
BlurLog_CallbackInBranch(v, dv) ==
    <<"setIsFocused">>
    \o (IF (v = Zero /\ dv = <<"$">>) \/ v # Zero
        THEN <<"setDisplayValue", "onBlur">> ELSE <<>>)

\* handleBlur, lines 150-162: its calls in order.
BlurLog(v, dv) ==
    <<"setIsFocused">>
    \o (IF (v = Zero /\ dv = <<"$">>) \/ v # Zero THEN <<"setDisplayValue">> ELSE <<>>)
    \o <<"onBlur">>

\* handleChange, lines 111-122: its calls in order.
ChangeLog(reported) ==
    <<"setDisplayValue">> \o [i \in 1..Len(reported) |-> "setValue"]

----------------------------------------------------------------------------
(* Inputs *)

\* Characters the user types: digits, the decimal point and a character that
\* the sanitizer drops (the symbol the display itself carries).
Alphabet == {"1", "9", ".", "$"}

\* The texts of the spec's scenarios, and a typed zero.
ScenarioTexts ==
    { <<"0">>,
      <<"1", "2", ".", "9", "9", "9">>,
      <<"5", "0", "0">>,
      <<"1", "0", "0", "0", "0", "0", "0">> }

TextsUpTo(n) == (UNION {[1..k -> Alphabet] : k \in 0..n}) \cup ScenarioTexts
TypedTexts == TextsUpTo(MaxLen)
KeyedTexts == TextsUpTo(MaxKeys)

\* minValue / maxValue pairs, minValue <= maxValue: the spec's scenario, the
\* usage example of the source, and non-integer bounds.
Half == Scale \div 2
BoundPairs ==
    { <<Zero, Num(100, 0)>>,
      <<Zero, Num(100000000, 0)>>,
      <<Num(1, Half), Num(100, Half)>> }
\* The pairs with integer bounds.
IntegerBoundPairs == {b \in BoundPairs : b[1].f = 0 /\ b[2].f = 0}

\* Values the caller loads into the value prop.
CallerValues == {Zero, Num(2500, 0), Num(12, Half)}

Currencies == {"USD", "EUR"}

----------------------------------------------------------------------------
(* State machine *)

\* The state after the first render, with the props the caller mounts with.
Mounted(bounds) ==
    /\ value \in CallerValues
    /\ \E b \in bounds : minValue = b[1] /\ maxValue = b[2]
    /\ currency \in Currencies
    /\ showCents \in BOOLEAN
    /\ showCurrencySymbol \in BOOLEAN
    /\ displayValue = <<>>
    /\ isFocused = FALSE
    /\ effectPending = TRUE          \* the effect runs after the first render
    /\ lastEvent = "mount"
    /\ typed = <<>>
    /\ calls = <<>>
    /\ pristine = FALSE
    /\ symbolOff = ~showCurrencySymbol
    /\ log = <<>>
    /\ blurFrom = "none"

\* The dependencies of the effect in the current render, and whether the next
\* render changes one of them (React then runs the effect after it).
DepsNow ==
    EffectDeps(value, showCents, isFocused, displayValue, showCurrencySymbol,
               currency)
Rendered == effectPending' = (DepsNow' # DepsNow)

Init == Mounted(IntegerBoundPairs)

\* useEffect(..., [value, showCents, isFocused]), lines 81-93.
RunEffect ==
    /\ effectPending
    /\ displayValue' = EffectDisplay(value, displayValue, isFocused,
                                     showCurrencySymbol, currency, showCents)
    /\ UNCHANGED <<value, minValue, maxValue, currency, showCents,
                   showCurrencySymbol, isFocused, lastEvent, typed, calls,
                   pristine, symbolOff, log, blurFrom>>
    /\ Rendered

\* handleChange, lines 95-124; the caller stores what setValue is given.
HandleChange(inputValue) ==
    LET cleanValue == CleanValue(inputValue, showCents)
        reported   == SetValueCalls(cleanValue, showCents, minValue, maxValue)
    IN  /\ ~effectPending
        /\ displayValue' = formatForDisplay(cleanValue, showCents, showCurrencySymbol)
        /\ calls' = reported
        /\ value' = IF reported # <<>> THEN reported[1] ELSE value
        /\ lastEvent' = "change"
        /\ typed' = inputValue
        /\ pristine' = FALSE
        /\ log' = ChangeLog(reported)
        /\ blurFrom' = "none"
        /\ UNCHANGED <<minValue, maxValue, currency, showCents,
                       showCurrencySymbol, isFocused, symbolOff>>
        /\ Rendered

\* handleFocus, lines 126-140.
HandleFocus ==
    /\ ~effectPending
    /\ ~isFocused
    /\ isFocused' = TRUE
    /\ displayValue' = FocusDisplay(value, showCurrencySymbol, currency, showCents)
    /\ lastEvent' = "focus"
    /\ typed' = <<>>
    /\ calls' = <<>>
    /\ pristine' = (value = Zero /\ displayValue = <<>>)
    /\ log' = FocusLog(value)
    /\ blurFrom' = "none"
    /\ UNCHANGED <<value, minValue, maxValue, currency, showCents,
                   showCurrencySymbol, symbolOff>>
    /\ Rendered

\* A blur handler that also commits the number shown to the caller.
HandleBlur_Commit ==
    LET reported == SetValueCalls(CleanValue(displayValue, showCents),
                                  showCents, minValue, maxValue)
    IN  /\ ~effectPending
        /\ isFocused
        /\ isFocused' = FALSE
        /\ displayValue' = BlurDisplay(value, displayValue, showCurrencySymbol,
                                       currency, showCents)
        /\ lastEvent' = "blur"
        /\ typed' = <<>>
        /\ calls' = reported
        /\ value' = IF reported # <<>> THEN reported[1] ELSE value
        /\ log' = BlurLog(value, displayValue) \o ChangeLog(reported)
        /\ blurFrom' = IF displayValue = <<>> THEN "empty"
                       ELSE IF displayValue = <<"$">> THEN "symbol" ELSE "text"
        /\ UNCHANGED <<minValue, maxValue, currency, showCents,
                       showCurrencySymbol, pristine, symbolOff>>
        /\ Rendered

\* handleBlur, lines 149-163.
HandleBlur ==
    /\ ~effectPending
    /\ isFocused
    /\ isFocused' = FALSE
    /\ displayValue' = BlurDisplay(value, displayValue, showCurrencySymbol,
                                   currency, showCents)
    /\ lastEvent' = "blur"
    /\ typed' = <<>>
    /\ calls' = <<>>
    /\ log' = BlurLog(value, displayValue)
    /\ blurFrom' = IF displayValue = <<>> THEN "empty"
                   ELSE IF displayValue = <<"$">> THEN "symbol" ELSE "text"
    /\ UNCHANGED <<value, minValue, maxValue, currency, showCents,
                   showCurrencySymbol, pristine, symbolOff>>
    /\ Rendered

\* The caller renders the component with another value prop.
SetValueProp(v) ==
    /\ ~effectPending
    /\ v # value
    /\ value' = v
    /\ lastEvent' = "value"
    /\ typed' = <<>>
    /\ calls' = <<>>
    /\ pristine' = FALSE
    /\ log' = <<>>
    /\ blurFrom' = "none"
    /\ UNCHANGED <<minValue, maxValue, currency, showCents, showCurrencySymbol,
                   displayValue, isFocused, symbolOff>>
    /\ Rendered

\* The caller renders the component with another showCents prop.
SetShowCents ==
    /\ ~effectPending
    /\ showCents' = ~showCents
    /\ lastEvent' = "showCents"
    /\ typed' = <<>>
    /\ calls' = <<>>
    /\ pristine' = FALSE
    /\ log' = <<>>
    /\ blurFrom' = "none"
    /\ UNCHANGED <<value, minValue, maxValue, currency, showCurrencySymbol,
                   displayValue, isFocused, symbolOff>>
    /\ Rendered

\* The caller renders the component with another showCurrencySymbol or
\* currency prop: neither is a dependency of the effect.
SetSymbolProps(sym, cur) ==
    /\ ~effectPending
    /\ <<sym, cur>> # <<showCurrencySymbol, currency>>
    /\ showCurrencySymbol' = sym
    /\ currency' = cur
    /\ symbolOff' = (symbolOff /\ ~sym)
    /\ lastEvent' = "symbol"
    /\ typed' = <<>>
    /\ calls' = <<>>
    /\ pristine' = FALSE
    /\ log' = <<>>
    /\ blurFrom' = "none"
    /\ UNCHANGED <<value, minValue, maxValue, showCents, displayValue,
                   isFocused>>
    /\ Rendered

\* The whole life of the component: any sequence of events.
Next ==
    \/ RunEffect
    \/ \E t \in KeyedTexts : HandleChange(t)
    \/ HandleFocus
    \/ HandleBlur
    \/ \E v \in CallerValues : SetValueProp(v)
    \/ SetShowCents
    \/ \E sym \in BOOLEAN, cur \in Currencies : SetSymbolProps(sym, cur)

Spec == Init /\ [][Next]_vars

\* The first edit after mount: mount, optionally focus, one change event with
\* any text of TypedTexts, each followed by the effect.
EditNext ==
    \/ RunEffect
    \/ lastEvent = "mount" /\ HandleFocus
    \/ lastEvent \in {"mount", "focus"} /\ \E t \in TypedTexts : HandleChange(t)

EditInit == Mounted(BoundPairs)

EditSpec == EditInit /\ [][EditNext]_vars

----------------------------------------------------------------------------
(* Vocabulary of the claims *)

Lt(a, b) == Leq(a, b) /\ a # b
InRange(v) == Leq(minValue, v) /\ Leq(v, maxValue)
\* At most two fractional digits.
AtMostCents(v) == (v.f * 100) % Scale = 0
\* Characters of a text that are digits / digits or points, spelled out.
IsDigitChar(c) == c \in {"0", "1", "2", "3", "4", "5", "6", "7", "8", "9"}
IsDigitOrPoint(c) == IsDigitChar(c) \/ c = "."
NumericIn(t) == SelectSeq(t, IsDigitOrPoint)
\* The sanitized text of the last change event and the number it parses to.
cleanTyped == CleanValue(typed, showCents)
parsedTyped == parseFloat(cleanTyped)
\* What a change event with text t would report in the current configuration.
ReportedFor(t) ==
    SetValueCalls(CleanValue(t, showCents), showCents, minValue, maxValue)
Floored(v) == IF showCents THEN v ELSE Num(v.w, 0)

----------------------------------------------------------------------------
(* Claims about handleChange, checked under EditSpec *)

\* C1: every value handleChange passes to setValue lies in
\* [minValue, maxValue], for any typed text and any configuration.
C1_RangeInvariant ==
    lastEvent = "change" => \A i \in 1..Len(calls) : InRange(calls[i])

\* C2: with showCents, no value passed to setValue carries more than two
\* fractional digits; typing "12.999" reports 12.99.
C2_CentsTruncated ==
    (lastEvent = "change" /\ showCents) =>
        /\ \A i \in 1..Len(calls) : AtMostCents(calls[i])
        /\ (typed = <<"1", "2", ".", "9", "9", "9">> /\ Lt(Num(13, 0), maxValue))
              => calls = <<Num(12, 99 * (Scale \div 100))>>

\* C3: without showCents every value passed to setValue by a change event is
\* an integer, whatever the typed text and the bounds (integer or not).
C3_IntegerPolicy ==
    (lastEvent = "change" /\ ~showCents) =>
        \A i \in 1..Len(calls) : IsInteger(calls[i])

\* C3 witness: a text above a non-integer maxValue was typed without
\* showCents and a value was reported.
C3_Witness ==
    /\ lastEvent = "change" /\ ~showCents
    /\ maxValue.f # 0 /\ ~isNaN(parsedTyped) /\ Lt(maxValue, parsedTyped)
    /\ Len(calls) = 1

----------------------------------------------------------------------------
(* Claims about the display string, checked under Spec *)

SymbolOnly == IF showCurrencySymbol THEN <<"$">> ELSE <<>>
Authoritative == NumberFormat(value, showCurrencySymbol, currency, showCents)
HasSymbol(d) == \E i \in 1..Len(d) : d[i] \in {"$", "€"}

\* C5: a focus event at value 0 makes the display string the bare symbol "$"
\* with showCurrencySymbol and the empty string without it; at any other
\* value it makes it the authoritative rendering of the value.
C5_FocusDisplay ==
    lastEvent = "focus" =>
        displayValue = IF value = Zero THEN SymbolOnly ELSE Authoritative

\* C6: from unfocused, value 0 and an empty display string, a focus event and
\* then a blur event with no change event between them, effects run, leave
\* the display string empty.
C6_FocusBlurRestoresEmpty ==
    (lastEvent = "blur" /\ pristine /\ ~effectPending) => displayValue = <<>>

\* C7: when the caller changes the value prop to 0 while the field is
\* unfocused, the display string becomes empty, whatever it was before.
C7_ExternalZeroIsEmpty ==
    (lastEvent = "value" /\ ~isFocused /\ value = Zero /\ ~effectPending)
        => displayValue = <<>>

\* C8: a change event whose sanitized text is empty sets the display string
\* to "" and calls setValue(0) exactly once, and the display string is still
\* "" once the caller has stored 0 and the effect has run.
C8_ClearedText ==
    (lastEvent = "change" /\ cleanTyped = <<>>) =>
        /\ calls = <<Zero>>
        /\ value = Zero
        /\ displayValue = <<>>

\* C8 witness: a text without digits was typed into a focused field, 0 was
\* stored and the effect has run.
C8_Witness ==
    /\ lastEvent = "change" /\ cleanTyped = <<>> /\ typed # <<>>
    /\ isFocused /\ ~effectPending /\ value = Zero /\ displayValue = <<>>

\* C9: a change event whose sanitized text is not empty and does not parse
\* (a bare decimal point with showCents) calls setValue not at all, changes
\* no dependency of the effect, and the display string shows the typed point.
C9_UnparsableText ==
    (lastEvent = "change" /\ cleanTyped # <<>> /\ isNaN(parsedTyped)) =>
        /\ calls = <<>>
        /\ ~effectPending
        /\ NumericIn(displayValue) = cleanTyped
        /\ displayValue = SymbolOnly \o cleanTyped

\* C9 witness: a bare decimal point was typed with showCents at a value that
\* is not 0.
C9_Witness ==
    /\ lastEvent = "change" /\ showCents /\ cleanTyped = <<".">>
    /\ value # Zero /\ calls = <<>>

\* C10: while showCurrencySymbol has been false since mount no display string
\* carries a currency symbol, and the value 2500 is displayed as "2,500".
C10_NoSymbolWhenDisabled ==
    symbolOff =>
        /\ ~HasSymbol(displayValue)
        /\ (value = Num(2500, 0) /\ ~showCents /\ ~effectPending
              /\ lastEvent \in {"mount", "value", "focus", "blur"})
             => displayValue = <<"2", ",", "5", "0", "0">>

----------------------------------------------------------------------------
(* Claims about the handlers' calls, checked under Spec *)

Count(sq, x) == Cardinality({i \in 1..Len(sq) : sq[i] = x})
\* cb is called exactly once, after setIsFocused and after every state update.
CalledOnceAfterUpdates(cb) ==
    /\ Count(log, cb) = 1
    /\ Count(log, "setIsFocused") = 1
    /\ \A i, j \in 1..Len(log) :
          (log[i] \in {"setIsFocused", "setDisplayValue"} /\ log[j] = cb) => i < j

\* C11: every focus event calls the caller's onFocus, and every blur event
\* the caller's onBlur, exactly once, on the zero and the non-zero branch
\* alike, and only after the handler's own setIsFocused / setDisplayValue.
C11_CallbackOrder ==
    /\ lastEvent = "focus" => CalledOnceAfterUpdates("onFocus")
    /\ lastEvent = "blur" => CalledOnceAfterUpdates("onBlur")

\* C11 witness: a blur at value 0 that did not touch the display string
\* still called onBlur.
C11_Witness ==
    /\ lastEvent = "blur" /\ value = Zero
    /\ log = <<"setIsFocused", "onBlur">>

----------------------------------------------------------------------------
(* Claims about typing and blurring, checked under Spec *)

\* C12: while the field is focused, after a change event and the effect that
\* follows it, the display string is the manual rendering of the typed text
\* (optional symbol, comma-grouped sanitized text).
C12_ManualWhileTyping ==
    (lastEvent = "change" /\ isFocused /\ ~effectPending) =>
        displayValue =
            formatForDisplay(cleanTyped, showCents, showCurrencySymbol)

\* C13 as claimed: after a blur event and its effect the display string is
\* empty if the value is 0 and the display string was exactly the
\* symbol-only string, and the authoritative rendering in every other case.
C13_BlurRecomputes ==
    (lastEvent = "blur" /\ ~effectPending) =>
        displayValue =
            IF value = Zero
               /\ blurFrom = (IF showCurrencySymbol THEN "symbol" ELSE "empty")
            THEN <<>> ELSE Authoritative

\* C13 amended: after a blur event and its effect the display string is
\* empty if the value is 0 and the display string was empty or exactly "$",
\* and the authoritative rendering of the value in every other case.
C13_BlurRecomputesOrStaysEmpty ==
    (lastEvent = "blur" /\ ~effectPending) =>
        displayValue =
            IF value = Zero /\ blurFrom \in {"empty", "symbol"}
            THEN <<>> ELSE Authoritative

\* C13 witness: a field cleared to value 0 with the symbol shown was blurred
\* and stays empty.
C13_Witness ==
    /\ lastEvent = "blur" /\ ~effectPending
    /\ value = Zero /\ showCurrencySymbol /\ blurFrom = "empty"
    /\ displayValue = <<>>


\* C14: once a change of showCurrencySymbol or currency by the caller has
\* been rendered (and any effect has run), the display string of an unfocused
\* field with a non-zero value is the authoritative rendering under the new
\* configuration; in particular it carries a symbol iff showCurrencySymbol.
C14_RecomputeOnConfigChange ==
    (lastEvent = "symbol" /\ ~isFocused /\ value # Zero /\ ~effectPending) =>
        /\ displayValue = Authoritative
        /\ HasSymbol(displayValue) = showCurrencySymbol


----------------------------------------------------------------------------
(* Claims about the manual formatter, checked under EditSpec *)

\* The manual rendering of the sanitized text of the last change event.
ManualDisplay == formatForDisplay(cleanTyped, showCents, showCurrencySymbol)
Unprefixed(d) == IF d # <<>> /\ d[1] = "$" THEN Tail(d) ELSE d
WithoutCommas(d) == SelectSeq(d, LAMBDA c : c # ",")
\* The integer portion of a rendering and what follows it.
IntegerPortion(d) == Split(Unprefixed(d))[1]
FractionPortions(d) == Tail(Split(Unprefixed(d)))
\* Position i of g counted in characters from g's right end is a group break.
IsGroupBreak(g, i) == (Len(g) - i + 1) % 4 = 0

\* C15: after a change event the display string is the manual rendering of
\* the sanitized text; its integer portion is the text's integer digits with
\* a comma exactly before every group of three digits counted from the right
\* end (never in front), its fractional portion has no comma; and typing
\* "1000000" with showCents=false and showCurrencySymbol=true under a bound
\* of 100000000 displays "$1,000,000" and reports 1000000.
C15_Grouping ==
    lastEvent = "change" =>
        LET g == IntegerPortion(ManualDisplay)
        IN  /\ effectPending => displayValue = ManualDisplay
            /\ WithoutCommas(g) = Split(cleanTyped)[1]
            /\ \A i \in 1..Len(g) : (g[i] = ",") <=> (i > 1 /\ IsGroupBreak(g, i))
            /\ \A k \in 1..Len(FractionPortions(ManualDisplay)) :
                   WithoutCommas(FractionPortions(ManualDisplay)[k])
                       = FractionPortions(ManualDisplay)[k]
            /\ (/\ typed = <<"1", "0", "0", "0", "0", "0", "0">>
                /\ ~showCents /\ showCurrencySymbol /\ effectPending
                /\ Leq(Num(1000000, 0), maxValue))
               => /\ displayValue = <<"$", "1", ",", "0", "0", "0", ",", "0", "0", "0">>
                  /\ calls = <<Num(1000000, 0)>>

\* C15 witness: "1000000" was typed without cents, with the symbol, and the
\* handler has set the display string and reported the number.
C15_Witness ==
    /\ lastEvent = "change" /\ effectPending
    /\ typed = <<"1", "0", "0", "0", "0", "0", "0">>
    /\ ~showCents /\ showCurrencySymbol
    /\ displayValue = <<"$", "1", ",", "0", "0", "0", ",", "0", "0", "0">>
    /\ calls = <<Num(1000000, 0)>>


\* v cut (not rounded) to two fractional digits.
TruncatedToCents(v) ==
    IF isNaN(v) THEN v
    ELSE Num(v.w, (v.f \div (Scale \div 100)) * (Scale \div 100))
\* Stripping symbol and separators from a display string and parsing it.
Reparsed(d) == parseFloat(StripNonNumeric(d))

\* C16: for the sanitized text of a change event, the manual rendering
\* stripped of symbol and separators and parsed again is the number the text
\* parses to: exactly when showCents is false, and cut to two fractional
\* digits when showCents is true (no number if the text has none).
C16_RoundTrip ==
    (lastEvent = "change" /\ cleanTyped # <<>>) =>
        /\ effectPending => Reparsed(displayValue) = Reparsed(ManualDisplay)
        /\ Reparsed(ManualDisplay) =
               IF showCents THEN TruncatedToCents(parsedTyped) ELSE parsedTyped
        /\ ~showCents => (isNaN(parsedTyped) \/ IsInteger(parsedTyped))

\* C16 witness: "12.999" was typed with showCents; the display string parses
\* back to 12.99, the typed number up to two fractional digits.
C16_Witness ==
    /\ lastEvent = "change" /\ effectPending /\ showCents
    /\ typed = <<"1", "2", ".", "9", "9", "9">>
    /\ Reparsed(displayValue) = Num(12, 99 * (Scale \div 100))
    /\ Reparsed(displayValue) # parsedTyped


----------------------------------------------------------------------------
(* Claims about the value and the effect, checked under Spec *)

\* C17: while focused, after a change event and the effect that follows it,
\* a display string that is not empty and parses as a number (symbol and
\* separators stripped) parses to the caller's value.
C17_DisplayAgreesWithValue ==
    (/\ lastEvent = "change" /\ isFocused /\ ~effectPending
     /\ displayValue # <<>> /\ ~isNaN(Reparsed(displayValue)))
    => Reparsed(displayValue) = value


\* C18: a focus event, a blur event and a run of the effect make no call of
\* setValue and leave the value as it is; a handler that calls setValue is
\* handleChange, and it calls it at most once per event.
C18_OnlyChangeCallsSetValue ==
    [][ /\ Len(calls') <= 1
        /\ effectPending =>
               value' = value /\ calls' = calls /\ log' = log
        /\ (~effectPending /\ lastEvent' \in {"focus", "blur"}) =>
               value' = value /\ calls' = <<>> /\ Count(log', "setValue") = 0
        /\ (~effectPending /\ lastEvent' # "change") => calls' = <<>>
        /\ (~effectPending /\ lastEvent' = "change") =>
               Count(log', "setValue") = Len(calls')
      ]_vars

\* C18 witness: a field showing the caller's 2500 was focused and blurred
\* without typing; no call of setValue was made and the value is still 2500.
C18_Witness ==
    /\ lastEvent = "blur" /\ ~effectPending /\ blurFrom = "text"
    /\ value = Num(2500, 0) /\ calls = <<>>
    /\ Count(log, "setValue") = 0


\* C19: a run of the effect leaves every dependency of the effect as it was
\* and is followed by a quiescent state: after an event at most one run of
\* the effect happens before the next event, and the effect's own write to
\* the display string does not schedule the effect again.
C19_UpdatesSettle ==
    [][ effectPending => (DepsNow' = DepsNow /\ ~effectPending') ]_vars

\* C19 witness: the effect that followed a focus event at value 0 rewrote
\* the display string from "$" to "$0" and the component is quiescent.
C19_Witness ==
    /\ lastEvent = "focus" /\ ~effectPending /\ value = Zero
    /\ displayValue = <<"$", "0">>

====
